---- MODULE Spec2Model ----
(***************************************************************************)
(* A model of wpull.warc.WARCRecord (src/wpull/warc.py): one record with   *)
(* an ordered field map and an optional seekable block, and the four       *)
(* operations on it: set_common_fields, set_content_length,                *)
(* compute_checksum and serialization (__iter__).  The caller's own steps, *)
(* attaching, replacing, repositioning and removing the block, are actions *)
(* too.                                                                    *)
(*                                                                         *)
(* Byte strings are TLA+ strings.  hashlib.sha1 and base64.b32encode are   *)
(* library functions; they are modelled as injective symbolic encodings    *)
(* of their input, so two digests are equal exactly when the hashed bytes  *)
(* are equal.  A hasher's state is the concatenation of what update() was  *)
(* given.                                                                  *)
(***************************************************************************)
EXTENDS Integers, Sequences, FiniteSets, TLC

VARIABLES
    block_file,  \* self.block_file: [attached, data, pos]
    fields,      \* self.fields: sequence of <<name, value>>, insertion order
    uuids,       \* number of identifiers uuid.uuid4() has produced
    clock,       \* the wall clock read by wpull.util.datetime_str()
    last         \* history: the last operation, its payload_offset, whether
                 \* and where it raised, and the chunks it produced

vars == <<block_file, fields, uuids, clock, last>>

---------------------------------------------------------------------------
(* Bounds of the model *)

\* longest block
MaxLen == 3
\* the chunk size of the read loops; the source reads 4096 bytes at a time,
\* the model scales it down so that bounded blocks span several chunks
ChunkSize == 2
\* longest block of ShortBlocks
MaxShortLen == 1
\* identifiers generated at most (calls of set_common_fields)
MaxIds == 2
\* latest clock reading
MaxClock == 1
\* the I/O calls of one operation are numbered from 1; the largest number of
\* the call that an injected failure may hit
MaxFailAt == 7

\* the blocks callers attach: the prefixes of a byte string whose bytes all
\* differ, so that two byte ranges of a block are equal only when they are the
\* same range
Bytes == "abcdefgh"

Blocks == {SubSeq(Bytes, 1, n) : n \in 0..MaxLen}

\* the shorter blocks
ShortBlocks == {b \in Blocks : Len(b) <= MaxShortLen}

---------------------------------------------------------------------------
(* Field names and constants of the class *)

VERSION == "WARC/1.0"
WARC_TYPE == "WARC-Type"
CONTENT_TYPE == "Content-Type"
WARC_DATE == "WARC-Date"
WARC_RECORD_ID == "WARC-Record-ID"
CONTENT_LENGTH == "Content-Length"
WARC_BLOCK_DIGEST == "WARC-Block-Digest"
WARC_PAYLOAD_DIGEST == "WARC-Payload-Digest"
CRLF == "\r\n"

\* (warc_type, content_type) pairs callers pass to set_common_fields
CommonTypes ==
    { <<"warcinfo", "application/warc-fields">>,
      <<"response", "application/http;msgtype=response">> }

---------------------------------------------------------------------------
(* The field map (wpull.namevalue.NameValueRecord) *)

HasField(fs, name) == \E i \in 1..Len(fs) : fs[i][1] = name

GetField(fs, name) == fs[CHOOSE i \in 1..Len(fs) : fs[i][1] = name][2]

\* fields[name] = value: overwrite in place, or append
SetField(fs, name, value) ==
    IF HasField(fs, name)
    THEN [i \in 1..Len(fs) |->
             IF fs[i][1] = name THEN <<name, value>> ELSE fs[i]]
    ELSE Append(fs, <<name, value>>)

RECURSIVE FieldsBytes(_)
\* bytes(self.fields): "Name: Value" CRLF for each field, in insertion order
FieldsBytes(fs) ==
    IF fs = <<>> THEN ""
    ELSE fs[1][1] \o ": " \o fs[1][2] \o CRLF \o FieldsBytes(Tail(fs))

---------------------------------------------------------------------------
(* The block: a seekable byte source *)

None == [attached |-> FALSE, data |-> "", pos |-> 0]

File(d, p) == [attached |-> TRUE, data |-> d, pos |-> p]

Min(a, b) == IF a < b THEN a ELSE b

\* file.read(n) at position pos: up to n bytes, all the rest when n < 0
Read(data, pos, n) ==
    LET end == IF n < 0 THEN Len(data) ELSE Min(pos + n, Len(data))
    IN  [data |-> SubSeq(data, pos + 1, end), pos |-> end]

\* hashlib.sha1(): digest of the bytes a hasher was updated with
Sha1Digest(fed) == "sha1(" \o fed \o ")"

\* base64.b32encode(...).decode()
B32Encode(raw) == "b32(" \o raw \o ")"

\* 'sha1:{0}'.format(base64.b32encode(hash).decode())
DigestField(fed) == "sha1:" \o B32Encode(Sha1Digest(fed))

\* payload_offset=None, or payload_offset=k
NoOffset == [given |-> FALSE, k |-> 0]
Offset(k) == [given |-> TRUE, k |-> k]
Offsets == {NoOffset} \cup {Offset(k) : k \in (0 - 1)..MaxLen}

\* the number of I/O calls that succeed before the one that raises, for the
\* body of a "with reset_file_offset" whose entering tell() is call 1
\* (-1: no call of the body raises)
Budget(fail_at) == IF fail_at <= 1 THEN 0 - 1 ELSE fail_at - 2

\* wpull.util.reset_file_offset(file) around a body that ran from f and ended
\* as `body` ([raised, pos, calls]): the offset is read on entry and sought
\* back to on every exit path
ResetFileOffset(f, body, fail_at) ==
    IF fail_at = 1
    THEN [raised |-> TRUE, pos |-> f.pos, where |-> "enter"]
    ELSE IF body.raised
    THEN [raised |-> TRUE, pos |-> f.pos, where |-> "body"]
    ELSE IF fail_at = body.calls + 2
    THEN [raised |-> TRUE, pos |-> body.pos, where |-> "restore"]
    ELSE [raised |-> FALSE, pos |-> f.pos, where |-> "none"]

---------------------------------------------------------------------------
(* set_common_fields *)

\* wpull.util.datetime_str() at clock reading t
DatetimeStr(t) == "2014-01-01T00:00:0" \o ToString(t) \o "Z"

\* '<{0}>'.format(uuid.uuid4().urn) for the n-th identifier generated
RecordId(n) == "<urn:uuid:" \o ToString(n) \o ">"

SetCommonFieldsResult(fs, warc_type, content_type, t, n) ==
    SetField(
        SetField(
            SetField(
                SetField(fs, WARC_TYPE, warc_type),
                CONTENT_TYPE, content_type),
            WARC_DATE, DatetimeStr(t)),
        WARC_RECORD_ID, RecordId(n))

---------------------------------------------------------------------------
(* set_content_length *)

\* an empty block taken for no block
NoBlockOrEmpty(f) == ~f.attached \/ f.data = ""

\* "not self.block_file": None is falsy, a file object never is
NoBlock(f) == ~f.attached

\* set_content_length without the "with reset_file_offset": the cursor stays
\* at the end of the block
SetContentLengthNoReset(fs, f) ==
    IF NoBlock(f)
    THEN [fields |-> SetField(fs, CONTENT_LENGTH, "0"), pos |-> f.pos]
    ELSE [fields |-> SetField(fs, CONTENT_LENGTH, ToString(Len(f.data))),
          pos |-> Len(f.data)]

SetContentLengthResult(fs, f) ==
    IF NoBlock(f)
    THEN [fields |-> SetField(fs, CONTENT_LENGTH, "0"), pos |-> f.pos]
    ELSE LET \* seek(0, 2); tell()
             body == [raised |-> FALSE, pos |-> Len(f.data), calls |-> 2]
             w == ResetFileOffset(f, body, 0)
         IN  [fields |-> SetField(fs, CONTENT_LENGTH, ToString(body.pos)),
              pos |-> w.pos]

---------------------------------------------------------------------------
(* compute_checksum *)

RECURSIVE ChecksumLoop(_, _, _)
\* the "while True" loop: s is [raised, pos, calls, block_hasher,
\* payload_hasher]; the read that is call number budget + 1 raises
ChecksumLoop(data, s, budget) ==
    IF s.calls = budget
    THEN [s EXCEPT !.raised = TRUE]
    ELSE LET r == Read(data, s.pos, ChunkSize)
         IN  IF r.data = ""
             THEN [s EXCEPT !.calls = @ + 1]
             ELSE ChecksumLoop(
                      data,
                      [s EXCEPT !.pos = r.pos,
                                !.calls = @ + 1,
                                !.block_hasher = @ \o r.data,
                                !.payload_hasher = @ \o r.data],
                      budget)

\* the body of the "with": the read of payload_offset bytes, the loop, and
\* the final tell()
ChecksumBody(f, payload_offset, budget) ==
    LET s0 == [raised |-> FALSE, pos |-> f.pos, calls |-> 0,
               block_hasher |-> "", payload_hasher |-> "",
               content_length |-> 0]
        s1 == IF ~payload_offset.given THEN s0
              ELSE IF s0.calls = budget THEN [s0 EXCEPT !.raised = TRUE]
              ELSE LET r == Read(f.data, s0.pos, payload_offset.k)
                   IN  [s0 EXCEPT !.pos = r.pos,
                                  !.calls = @ + 1,
                                  !.block_hasher = @ \o r.data]
        s2 == IF s1.raised THEN s1 ELSE ChecksumLoop(f.data, s1, budget)
    IN  IF s2.raised THEN s2
        ELSE IF s2.calls = budget THEN [s2 EXCEPT !.raised = TRUE]
        ELSE [s2 EXCEPT !.calls = @ + 1, !.content_length = s2.pos]

\* the field writes made although the "with" raised
ChecksumFieldsPartial(fs, payload_offset, body, raised) ==
    LET gs == SetField(fs, WARC_BLOCK_DIGEST,
                       DigestField(body.block_hasher))
        hs == IF payload_offset.given
              THEN SetField(gs, WARC_PAYLOAD_DIGEST,
                            DigestField(body.payload_hasher))
              ELSE gs
    IN  SetField(hs, CONTENT_LENGTH, ToString(body.content_length))

\* the block digest stored under WARC-Record-ID instead of WARC-Block-Digest
ChecksumFieldsWrongName(fs, payload_offset, body, raised) ==
    IF raised THEN fs
    ELSE LET gs == SetField(fs, WARC_RECORD_ID,
                            DigestField(body.block_hasher))
             hs == IF payload_offset.given
                   THEN SetField(gs, WARC_PAYLOAD_DIGEST,
                                 DigestField(body.payload_hasher))
                   ELSE gs
         IN  SetField(hs, CONTENT_LENGTH, ToString(body.content_length))

\* the field writes after the "with"; none is reached when it raised
ChecksumFields(fs, payload_offset, body, raised) ==
    IF raised THEN fs
    ELSE LET gs == SetField(fs, WARC_BLOCK_DIGEST,
                            DigestField(body.block_hasher))
             hs == IF payload_offset.given
                   THEN SetField(gs, WARC_PAYLOAD_DIGEST,
                                 DigestField(body.payload_hasher))
                   ELSE gs
         IN  SetField(hs, CONTENT_LENGTH, ToString(body.content_length))

ComputeChecksumResult(fs, f, payload_offset, fail_at) ==
    IF NoBlock(f)
    THEN [fields |-> SetField(fs, CONTENT_LENGTH, "0"), pos |-> f.pos,
          raised |-> FALSE, where |-> "none"]
    ELSE LET body == ChecksumBody(f, payload_offset, Budget(fail_at))
             w == ResetFileOffset(f, body, fail_at)
         IN  [fields |-> ChecksumFields(fs, payload_offset, body, w.raised),
              pos |-> w.pos, raised |-> w.raised, where |-> w.where]

---------------------------------------------------------------------------
(* __iter__ *)

RECURSIVE ReadChunks(_, _)
\* the chunks the read loop yields from position pos
ReadChunks(data, pos) ==
    LET r == Read(data, pos, ChunkSize)
    IN  IF r.data = "" THEN <<>>
        ELSE <<r.data>> \o ReadChunks(data, r.pos)

\* the chunks of one complete iteration; on None the "with" raises after the
\* first four chunks were yielded
IterResult(fs, f) ==
    LET head == <<VERSION, CRLF, FieldsBytes(fs), CRLF>>
    IN  IF ~f.attached
        THEN [out |-> head, raised |-> TRUE, pos |-> f.pos]
        ELSE LET chunks == ReadChunks(f.data, f.pos)
                 body == [raised |-> FALSE, pos |-> Len(f.data),
                          calls |-> Len(chunks) + 1]
                 w == ResetFileOffset(f, body, 0)
             IN  [out |-> head \o chunks \o <<CRLF \o CRLF>>,
                  raised |-> FALSE, pos |-> w.pos]

RECURSIVE Concat(_)
\* b''.join(chunks)
Concat(chunks) ==
    IF chunks = <<>> THEN "" ELSE Head(chunks) \o Concat(Tail(chunks))

---------------------------------------------------------------------------
(* The state machine *)

Did(op, payload_offset, raised, where, out) ==
    [op |-> op, payload_offset |-> payload_offset, raised |-> raised,
     where |-> where, out |-> out]

\* WARCRecord()
Init ==
    /\ block_file = None
    /\ fields = <<>>
    /\ uuids = 0
    /\ clock = 0
    /\ last = Did("init", NoOffset, FALSE, "none", <<>>)

\* record.block_file = file, a block of B with its cursor at any position
AttachBlock(B) ==
    \E d \in B : \E p \in 0..Len(d) :
        /\ block_file' = File(d, p)
        /\ last' = Did("attach", NoOffset, FALSE, "none", <<>>)
        /\ UNCHANGED <<fields, uuids, clock>>

\* record.block_file = None
DetachBlock ==
    /\ block_file.attached
    /\ block_file' = None
    /\ last' = Did("detach", NoOffset, FALSE, "none", <<>>)
    /\ UNCHANGED <<fields, uuids, clock>>

\* set_common_fields(warc_type, content_type) at a clock reading not earlier
\* than the last one
SetCommonFields ==
    \E ty \in CommonTypes : \E t \in clock..MaxClock :
        /\ uuids < MaxIds
        /\ uuids' = uuids + 1
        /\ clock' = t
        /\ fields' = SetCommonFieldsResult(fields, ty[1], ty[2], t, uuids')
        /\ last' = Did("set_common_fields", NoOffset, FALSE, "none", <<>>)
        /\ UNCHANGED block_file

SetContentLength ==
    LET r == SetContentLengthResult(fields, block_file)
    IN  /\ fields' = r.fields
        /\ block_file' = [block_file EXCEPT !.pos = r.pos]
        /\ last' = Did("set_content_length", NoOffset, FALSE, "none", <<>>)
        /\ UNCHANGED <<uuids, clock>>

\* compute_checksum(payload_offset) with payload_offset in O; the I/O call
\* numbered fail_at raises (0: none does)
ComputeChecksum(O, F) ==
    \E po \in O : \E fail_at \in F :
        LET r == ComputeChecksumResult(fields, block_file, po, fail_at)
        IN  /\ fail_at = 0 \/ r.raised
            /\ fields' = r.fields
            /\ block_file' = [block_file EXCEPT !.pos = r.pos]
            /\ last' = Did("compute_checksum", po, r.raised, r.where, <<>>)
            /\ UNCHANGED <<uuids, clock>>

\* list(record): the generator iterated until it returns or raises
Serialize ==
    LET r == IterResult(fields, block_file)
    IN  /\ block_file' = [block_file EXCEPT !.pos = r.pos]
        /\ last' = Did("serialize", NoOffset, r.raised, "none", r.out)
        /\ UNCHANGED <<fields, uuids, clock>>

\* A record whose block, length and digests are worked on, the block never
\* failing: every block, every cursor, every payload offset
Next ==
    \/ AttachBlock(Blocks)
    \/ DetachBlock
    \/ SetContentLength
    \/ ComputeChecksum(Offsets, {0})
    \/ Serialize

Spec == Init /\ [][Next]_vars

\* The same record over a block whose I/O calls may raise during
\* compute_checksum: every payload offset, every failing call
NextFail ==
    \/ AttachBlock(ShortBlocks)
    \/ DetachBlock
    \/ SetContentLength
    \/ ComputeChecksum(Offsets, 0..MaxFailAt)
    \/ Serialize

SpecFail == Init /\ [][NextFail]_vars

\* A record whose mandatory fields are set, and set again, between the other
\* operations
NextCommon ==
    \/ AttachBlock(ShortBlocks)
    \/ DetachBlock
    \/ SetCommonFields
    \/ SetContentLength
    \/ ComputeChecksum({NoOffset, Offset(0)}, {0})
    \/ Serialize

SpecCommon == Init /\ [][NextCommon]_vars

---------------------------------------------------------------------------
(* Properties *)

\* the field is present with this value
FieldIs(fs, name, value) == HasField(fs, name) /\ GetField(fs, name) = value

\* the same value, or the same absence, of a field in two field maps
SameField(fs, gs, name) ==
    /\ HasField(fs, name) <=> HasField(gs, name)
    /\ HasField(fs, name) => GetField(fs, name) = GetField(gs, name)

Measuring == {"set_content_length", "compute_checksum"}
Reading == {"set_content_length", "compute_checksum", "serialize"}
Computed == {CONTENT_LENGTH, WARC_BLOCK_DIGEST, WARC_PAYLOAD_DIGEST}

\* the block bytes of a complete serialization: what lies between the fourth
\* chunk and the terminator
EmittedBlockBytes(out) == Concat(SubSeq(out, 5, Len(out) - 1))

\* C1: after compute_checksum or set_content_length, Content-Length is the
\* number of block bytes a following complete serialization emits, for every
\* cursor position; with no block attached it is "0".
C1_ContentLengthIsEmittedLength ==
    (last.op \in Measuring /\ ~last.raised) =>
        IF block_file.attached
        THEN FieldIs(fields, CONTENT_LENGTH,
                 ToString(Len(EmittedBlockBytes(
                     IterResult(fields, block_file).out))))
        ELSE FieldIs(fields, CONTENT_LENGTH, "0")

\* C2: compute_checksum(payload_offset=k), 0 <= k <= L, sets
\* WARC-Payload-Digest to the digest of block bytes [k:L) and
\* WARC-Block-Digest to the digest of the whole block [0:L), which is also
\* the block digest without a payload offset.
C2_DigestsOfPayloadAndBlock ==
    LET k == last.payload_offset.k
        L == Len(block_file.data)
    IN  (last.op = "compute_checksum" /\ ~last.raised /\ block_file.attached
             /\ (last.payload_offset.given => 0 <= k /\ k <= L)) =>
            /\ FieldIs(fields, WARC_BLOCK_DIGEST,
                       DigestField(block_file.data))
            /\ last.payload_offset.given =>
                   FieldIs(fields, WARC_PAYLOAD_DIGEST,
                           DigestField(SubSeq(block_file.data, k + 1, L)))

\* C3: after every compute_checksum call, in any sequence of calls,
\* WARC-Block-Digest is present iff a block is attached, and
\* WARC-Payload-Digest is present iff a block is attached and the call was
\* given a payload offset.
C3_DigestPresence ==
    (last.op = "compute_checksum" /\ ~last.raised) =>
        /\ HasField(fields, WARC_BLOCK_DIGEST) <=> block_file.attached
        /\ HasField(fields, WARC_PAYLOAD_DIGEST) <=>
               (block_file.attached /\ last.payload_offset.given)

\* C4, as claimed: compute_checksum on an attached block of length 0 sets
\* Content-Length to "0" and sets neither digest field.
C4_EmptyBlockSetsNoDigest ==
    [][(last'.op = "compute_checksum" /\ ~last'.raised
            /\ block_file.attached /\ block_file.data = "") =>
           /\ FieldIs(fields', CONTENT_LENGTH, "0")
           /\ SameField(fields, fields', WARC_BLOCK_DIGEST)
           /\ SameField(fields, fields', WARC_PAYLOAD_DIGEST)]_vars

\* C4, amended: compute_checksum on an attached block of length 0 sets
\* Content-Length to "0" and WARC-Block-Digest to the digest of no bytes; it
\* sets WARC-Payload-Digest, to the same digest, exactly when a payload
\* offset is given.
C4_EmptyBlockDigestOfNoBytes ==
    [][(last'.op = "compute_checksum" /\ ~last'.raised
            /\ block_file.attached /\ block_file.data = "") =>
           /\ FieldIs(fields', CONTENT_LENGTH, "0")
           /\ FieldIs(fields', WARC_BLOCK_DIGEST, DigestField(""))
           /\ IF last'.payload_offset.given
              THEN FieldIs(fields', WARC_PAYLOAD_DIGEST, DigestField(""))
              ELSE SameField(fields, fields', WARC_PAYLOAD_DIGEST)]_vars

\* C4, the case: compute_checksum with a payload offset has run on an
\* attached empty block
C4_EmptyBlockChecksummed ==
    /\ last.op = "compute_checksum" /\ ~last.raised
    /\ last.payload_offset = Offset(0)
    /\ block_file.attached /\ block_file.data = ""
    /\ FieldIs(fields, WARC_PAYLOAD_DIGEST, DigestField(""))

\* C5: set_content_length, compute_checksum and a complete serialization
\* leave the block's cursor and contents as they were, for every block and
\* every cursor position.
C5_CursorAndBlockUnchanged ==
    [][(last'.op \in Reading /\ ~last'.raised /\ block_file.attached) =>
           block_file' = block_file]_vars

\* C5, the case: a serialization read a block from the middle to its end and
\* the cursor is in the middle again
C5_ReadFromMidBlock ==
    /\ last.op = "serialize" /\ ~last.raised
    /\ block_file.attached
    /\ 0 < block_file.pos /\ block_file.pos < Len(block_file.data)
    /\ Len(last.out) > 5

\* C6, as claimed: when a read or seek of the block fails during
\* compute_checksum the error propagates, the cursor is back at its position
\* before the call, and no computed field is written.
C6_FailureRestoresCursor ==
    [][(last'.op = "compute_checksum" /\ last'.where # "none") =>
           /\ last'.raised
           /\ block_file' = block_file
           /\ \A n \in Computed : SameField(fields, fields', n)]_vars

\* C6, amended: when an I/O call on the block fails during compute_checksum
\* the error propagates and no computed field is written; the cursor is back
\* at its position before the call unless the failing call is the seek that
\* restores it, and then the cursor stays at the end of the block, where the
\* reading stopped.
C6_FailureWritesNothing ==
    [][(last'.op = "compute_checksum" /\ last'.where # "none") =>
           /\ last'.raised
           /\ \A n \in Computed : SameField(fields, fields', n)
           /\ block_file'.data = block_file.data
           /\ block_file'.attached
           /\ IF last'.where = "restore"
              THEN block_file'.pos = Len(block_file.data)
              ELSE block_file'.pos = block_file.pos]_vars

\* C6, the case: a read failed in compute_checksum with block bytes still
\* ahead of the cursor
C6_ReadFailed ==
    /\ last.op = "compute_checksum" /\ last.raised /\ last.where = "body"
    /\ block_file.attached
    /\ block_file.pos < Len(block_file.data)

\* C7: compute_checksum with a negative payload_offset on an attached block
\* fails fast and sets no field.
C7_NegativeOffsetRejected ==
    [][(last'.op = "compute_checksum" /\ block_file.attached
            /\ last'.payload_offset.given /\ last'.payload_offset.k < 0) =>
           /\ last'.raised
           /\ fields' = fields]_vars

\* C8: the chunks of one complete serialization concatenate to "WARC/1.0",
\* CRLF, the serialized fields, CRLF, all block bytes from the start of the
\* block to its end, CRLF CRLF; serializing again gives the same bytes.
C8_SerializedLayout ==
    (last.op = "serialize" /\ block_file.attached) =>
        /\ ~last.raised
        /\ Concat(last.out) =
               VERSION \o CRLF \o FieldsBytes(fields) \o CRLF
                   \o block_file.data \o CRLF \o CRLF
        /\ Concat(IterResult(fields, block_file).out) = Concat(last.out)

\* C9, as claimed: once WARC-Record-ID and WARC-Date are set, no later
\* operation changes them.
C9_IdAndDateNeverChange ==
    [][(HasField(fields, WARC_RECORD_ID) /\ HasField(fields, WARC_DATE)) =>
           /\ SameField(fields, fields', WARC_RECORD_ID)
           /\ SameField(fields, fields', WARC_DATE)]_vars

\* C9, amended: once WARC-Record-ID and WARC-Date are set, no later
\* set_content_length, compute_checksum or serialization changes them; only
\* set_common_fields, called again, does.
C9_OnlySetCommonFieldsChangesIdAndDate ==
    [][(HasField(fields, WARC_RECORD_ID) /\ HasField(fields, WARC_DATE)
            /\ last'.op # "set_common_fields") =>
           /\ SameField(fields, fields', WARC_RECORD_ID)
           /\ SameField(fields, fields', WARC_DATE)]_vars

\* C9, the case: compute_checksum has written its fields into a record whose
\* WARC-Record-ID and WARC-Date were set
C9_ChecksummedAfterCommonFields ==
    /\ last.op = "compute_checksum"
    /\ block_file.attached
    /\ HasField(fields, WARC_RECORD_ID) /\ HasField(fields, WARC_DATE)
    /\ HasField(fields, WARC_BLOCK_DIGEST)

\* C10: with no block attached nothing raises: compute_checksum and
\* set_content_length set Content-Length to "0" and no digest field, and a
\* serialization ends after the version line, CRLF, the fields, CRLF and the
\* CRLF CRLF terminator.
C10_NoBlockFlowCompletes ==
    [][(~block_file.attached /\ last'.op \in Reading) =>
           /\ ~last'.raised
           /\ last'.op \in Measuring =>
                  /\ FieldIs(fields', CONTENT_LENGTH, "0")
                  /\ SameField(fields, fields', WARC_BLOCK_DIGEST)
                  /\ SameField(fields, fields', WARC_PAYLOAD_DIGEST)
           /\ last'.op = "serialize" =>
                  last'.out = <<VERSION, CRLF, FieldsBytes(fields), CRLF,
                                CRLF \o CRLF>>]_vars

====
